---- MODULE Spec2Model ----
(***************************************************************************)
(* Model of the Smart Plant Monitor backend (src/plant_monitor_app.py):    *)
(* the POST /plant-status handler get_plant_status, the worker-thread      *)
(* function fetch_measurements, the lazily created module-level Firestore  *)
(* client of get_firestore_client, the reply normalisation and the         *)
(* PlantAdviceResponse validation.                                         *)
(*                                                                         *)
(* Python values are tagged records.  A Python str is a sequence of        *)
(* chunks (TLA+ strings); a chunk stands for one character or for a run of *)
(* characters that no parser looks into.                                   *)
(***************************************************************************)
EXTENDS Integers, Sequences, FiniteSets, TLC

\* Number of concurrent requests the hosting server accepts in a run.
NumRequests == 2

Requests == 1..NumRequests

----------------------------------------------------------------------------
\* Python values

PyNone == [t |-> "null"]
PyBool(b) == [t |-> "bool", b |-> b]
PyStr(s) == [t |-> "str", s |-> s]
PyInt(n) == [t |-> "int", n |-> n]
PyFloat(f) == [t |-> "float", f |-> f]
PyList(l) == [t |-> "list", l |-> l]
PyDict(d) == [t |-> "dict", d |-> d]

\* A float: finite m * 10^(-e), NaN, or an infinity of sign m.
Fin(m, e) == [k |-> "fin", m |-> m, e |-> e]
NaN == [k |-> "nan", m |-> 0, e |-> 0]
Inf(sign) == [k |-> "inf", m |-> sign, e |-> 0]

IsFinite(f) == f.k = "fin"

RECURSIVE NormFloat(_, _)
\* The value m * 10^(-e) without trailing zeros in the fraction.
NormFloat(m, e) ==
    IF e > 0 /\ m % 10 = 0 THEN NormFloat(m \div 10, e - 1) ELSE Fin(m, e)

Whitespace == {" "}
Digit == {"0", "1", "2", "3", "4", "5", "6", "7", "8", "9"}

DigitValue(c) ==
    CASE c = "0" -> 0 [] c = "1" -> 1 [] c = "2" -> 2 [] c = "3" -> 3
      [] c = "4" -> 4 [] c = "5" -> 5 [] c = "6" -> 6 [] c = "7" -> 7
      [] c = "8" -> 8 [] c = "9" -> 9

RECURSIVE LStrip(_, _)
\* s without its leading chunks that are in chars.
LStrip(s, chars) ==
    IF s # <<>> /\ Head(s) \in chars THEN LStrip(Tail(s), chars) ELSE s

RECURSIVE RStrip(_, _)
\* s without its trailing chunks that are in chars.
RStrip(s, chars) ==
    IF s # <<>> /\ s[Len(s)] \in chars
    THEN RStrip(SubSeq(s, 1, Len(s) - 1), chars)
    ELSE s

\* str.strip(chars)
Strip(s, chars) == RStrip(LStrip(s, chars), chars)

\* document_path.strip().strip("/")
NormalizePath(document_path) == Strip(Strip(document_path, Whitespace), {"/"})

RECURSIVE DigitsValue(_, _)
\* The integer written by the digit sequence s, after the digits worth acc.
DigitsValue(s, acc) ==
    IF s = <<>> THEN acc ELSE DigitsValue(Tail(s), acc * 10 + DigitValue(Head(s)))

\* The places of "." in s.
Dots(s) == {i \in 1..Len(s) : s[i] = "."}

\* float() of an unsigned decimal text: digits, at most one ".", at least
\* one digit.  (Exponents and underscores are not in the modelled alphabet.)
UnsignedDecimalOk(s) ==
    /\ Cardinality(Dots(s)) <= 1
    /\ \A i \in 1..Len(s) : s[i] \in Digit \cup {"."}
    /\ \E i \in 1..Len(s) : s[i] \in Digit

UnsignedDecimal(s) ==
    IF Dots(s) = {}
    THEN NormFloat(DigitsValue(s, 0), 0)
    ELSE LET d == CHOOSE i \in Dots(s) : TRUE
             int == SubSeq(s, 1, d - 1)
             frac == SubSeq(s, d + 1, Len(s))
         IN NormFloat(DigitsValue(int \o frac, 0), Len(frac))

\* float(str): [ok |-> TRUE, f |-> value] or [ok |-> FALSE] for ValueError.
FloatOfStr(text) ==
    LET s == Strip(text, Whitespace)
        signed == s # <<>> /\ Head(s) \in {"+", "-"}
        neg == s # <<>> /\ Head(s) = "-"
        body == IF signed THEN Tail(s) ELSE s
    IN IF body = <<"n", "a", "n">> THEN [ok |-> TRUE, f |-> NaN]
       ELSE IF body = <<"i", "n", "f">>
                 \/ body = <<"i", "n", "f", "i", "n", "i", "t", "y">>
       THEN [ok |-> TRUE, f |-> Inf(IF neg THEN -1 ELSE 1)]
       ELSE IF UnsignedDecimalOk(body)
       THEN LET u == UnsignedDecimal(body)
            IN [ok |-> TRUE, f |-> Fin(IF neg THEN -u.m ELSE u.m, u.e)]
       ELSE [ok |-> FALSE, f |-> NaN]

\* float(x) of a stored field value: err is "" on success, else the
\* exception class.
PyFloatOf(x) ==
    CASE x.t = "float" -> [err |-> "", f |-> x.f]
      [] x.t = "int" -> [err |-> "", f |-> Fin(x.n, 0)]
      [] x.t = "bool" -> [err |-> "", f |-> Fin(IF x.b THEN 1 ELSE 0, 0)]
      [] x.t = "str" ->
            LET p == FloatOfStr(x.s)
            IN IF p.ok THEN [err |-> "", f |-> p.f]
               ELSE [err |-> "ValueError", f |-> NaN]
      [] OTHER -> [err |-> "TypeError", f |-> NaN]

----------------------------------------------------------------------------
\* Outcomes: the result of the worker thread's fetch_measurements (the
\* future awaited by the handler) and the response of a request.
\*   status  the HTTP status (0 while there is none)
\*   kind    the failure class, "ok" for a successful fetch, "Success"
\*   cause   the exception behind a 500
\*   names   the fields the detail names
\*   body    the response body of a 200
\*   raised  TRUE when the exception is no HTTPException of the handler's:
\*           it leaves get_plant_status as raised and the hosting server
\*           answers it with a bare 500

NoBody == [t |-> "null"]

Outcome(status, kind, cause, names, body, raised) ==
    [status |-> status, kind |-> kind, cause |-> cause, names |-> names,
     body |-> body, raised |-> raised]

Pending == Outcome(0, "pending", "", <<>>, NoBody, FALSE)
FetchOk == Outcome(0, "ok", "", <<>>, NoBody, FALSE)

\* raise HTTPException(status_code=..., detail=...)
HTTPException(status, kind, cause, names) ==
    Outcome(status, kind, cause, names, NoBody, FALSE)

\* An exception that nothing in the handler catches.
Unhandled(cause) == Outcome(500, "Unhandled", cause, <<>>, NoBody, TRUE)

NoMeasurement == [humidity |-> NaN, temperature |-> NaN, set |-> FALSE]
Measurement(h, t) == [humidity |-> h, temperature |-> t, set |-> TRUE]

\* The try block of fetch_measurements on the document's data: humedad is
\* looked up and converted before temperatura is looked up.
ReadFields(data) ==
    IF "humedad" \notin DOMAIN data
    THEN [out |-> HTTPException(400, "MissingField", "KeyError", <<"humedad">>),
          m |-> NoMeasurement]
    ELSE LET h == PyFloatOf(data["humedad"])
         IN IF h.err # ""
            THEN [out |-> HTTPException(400, "NotNumeric", h.err, <<>>),
                  m |-> NoMeasurement]
            ELSE IF "temperatura" \notin DOMAIN data
            THEN [out |-> HTTPException(400, "MissingField", "KeyError",
                                        <<"temperatura">>),
                  m |-> NoMeasurement]
            ELSE LET t == PyFloatOf(data["temperatura"])
                 IN IF t.err # ""
                    THEN [out |-> HTTPException(400, "NotNumeric", t.err, <<>>),
                          m |-> NoMeasurement]
                    ELSE [out |-> FetchOk, m |-> Measurement(h.f, t.f)]

\* fetch_measurements from the snapshot on: the exists test, to_dict() or {},
\* the two fields.
FromSnapshot(snapshot) ==
    IF ~snapshot.exists
    THEN [out |-> HTTPException(404, "NotFound", "", <<>>), m |-> NoMeasurement]
    ELSE ReadFields(snapshot.data)

----------------------------------------------------------------------------
\* The prompt: f"{humidity:.1f}" and f"{temperature:.1f}"

RECURSIVE NatDigits(_)
\* The decimal digits of a natural number.
NatDigits(n) ==
    LET d == CASE n % 10 = 0 -> "0" [] n % 10 = 1 -> "1" [] n % 10 = 2 -> "2"
               [] n % 10 = 3 -> "3" [] n % 10 = 4 -> "4" [] n % 10 = 5 -> "5"
               [] n % 10 = 6 -> "6" [] n % 10 = 7 -> "7" [] n % 10 = 8 -> "8"
               [] n % 10 = 9 -> "9"
    IN IF n < 10 THEN <<d>> ELSE Append(NatDigits(n \div 10), d)

RECURSIVE Pow10(_)
Pow10(e) == IF e = 0 THEN 1 ELSE 10 * Pow10(e - 1)

\* |m| * 10^(-e) in tenths, rounded half to even.
RoundTenths(m, e) ==
    IF e = 0 THEN m * 10
    ELSE IF e = 1 THEN m
    ELSE LET unit == Pow10(e - 1)
             q == m \div unit
             rem == m % unit
         IN IF 2 * rem > unit \/ (2 * rem = unit /\ q % 2 = 1) THEN q + 1 ELSE q

\* format(f, ".1f")
FormatOneDecimal(f) ==
    CASE f.k = "nan" -> <<"n", "a", "n">>
      [] f.k = "inf" -> (IF f.m < 0 THEN <<"-">> ELSE <<>>) \o <<"i", "n", "f">>
      [] OTHER ->
            LET abs == IF f.m < 0 THEN -f.m ELSE f.m
                tenths == RoundTenths(abs, f.e)
            IN (IF f.m < 0 THEN <<"-">> ELSE <<>>)
               \o NatDigits(tenths \div 10) \o <<".">> \o NatDigits(tenths % 10)

NoPrompt == [humidity |-> <<>>, temperature |-> <<>>]

\* The two interpolated pieces of the prompt (the rest of it is constant).
BuildPrompt(m) ==
    [humidity |-> FormatOneDecimal(m.humidity),
     temperature |-> FormatOneDecimal(m.temperature)]

----------------------------------------------------------------------------
\* json.loads on a chunk sequence.  Q is the double quote; the literals
\* true, false and null are one chunk each; a string literal is Q, chunks,
\* Q (no escapes in the modelled alphabet); a number is digits with an
\* optional leading "-" and an optional fraction.

Q == "\""

EmptyDict == [k \in {} |-> PyNone]

ParseFail == [ok |-> FALSE, v |-> PyNone, i |-> 0]
Parsed(v, i) == [ok |-> TRUE, v |-> v, i |-> i]

RECURSIVE SkipWs(_, _)
\* The first place from i on that holds no whitespace.
SkipWs(s, i) ==
    IF i <= Len(s) /\ s[i] \in Whitespace THEN SkipWs(s, i + 1) ELSE i

RECURSIVE ScanString(_, _)
\* The place of the closing quote of a string whose content starts at i,
\* or 0 when the text ends first.
ScanString(s, i) ==
    IF i > Len(s) THEN 0 ELSE IF s[i] = Q THEN i ELSE ScanString(s, i + 1)

RECURSIVE ScanDigits(_, _)
\* The first place from i on that holds no digit.
ScanDigits(s, i) ==
    IF i <= Len(s) /\ s[i] \in Digit THEN ScanDigits(s, i + 1) ELSE i

\* A number starting at i.
ParseNumber(s, i) ==
    LET neg == s[i] = "-"
        b == IF neg THEN i + 1 ELSE i
        e == ScanDigits(s, b)
    IN IF e = b THEN ParseFail
       ELSE LET int == DigitsValue(SubSeq(s, b, e - 1), 0)
            IN IF e <= Len(s) /\ s[e] = "."
               THEN LET fe == ScanDigits(s, e + 1)
                    IN IF fe = e + 1 THEN ParseFail
                       ELSE LET frac == SubSeq(s, e + 1, fe - 1)
                                u == NormFloat(
                                    DigitsValue(SubSeq(s, b, e - 1) \o frac, 0),
                                    Len(frac))
                            IN Parsed(PyFloat(Fin(IF neg THEN -u.m ELSE u.m,
                                                  u.e)), fe)
               ELSE Parsed(PyInt(IF neg THEN -int ELSE int), e)

RECURSIVE ParseValue(_, _)
RECURSIVE ParseMembers(_, _, _)
RECURSIVE ParseElements(_, _, _)

\* The members of an object from i on (after "{" or ","), added to d; a
\* repeated key keeps its last value.
ParseMembers(s, i, d) ==
    LET k == SkipWs(s, i)
    IN IF k > Len(s) \/ s[k] # Q THEN ParseFail
       ELSE LET kc == ScanString(s, k + 1)
            IN IF kc = 0 THEN ParseFail
               ELSE LET key == SubSeq(s, k + 1, kc - 1)
                        c == SkipWs(s, kc + 1)
                    IN IF c > Len(s) \/ s[c] # ":" THEN ParseFail
                       ELSE LET pv == ParseValue(s, c + 1)
                            IN IF ~pv.ok THEN ParseFail
                               ELSE LET d2 == [x \in DOMAIN d \cup {key} |->
                                               IF x = key THEN pv.v ELSE d[x]]
                                        n == SkipWs(s, pv.i)
                                    IN IF n > Len(s) THEN ParseFail
                                       ELSE IF s[n] = "}"
                                       THEN Parsed(PyDict(d2), n + 1)
                                       ELSE IF s[n] = ","
                                       THEN ParseMembers(s, n + 1, d2)
                                       ELSE ParseFail

\* The elements of an array from i on (after "[" or ","), appended to l.
ParseElements(s, i, l) ==
    LET pv == ParseValue(s, i)
    IN IF ~pv.ok THEN ParseFail
       ELSE LET n == SkipWs(s, pv.i)
            IN IF n > Len(s) THEN ParseFail
               ELSE IF s[n] = "]" THEN Parsed(PyList(Append(l, pv.v)), n + 1)
               ELSE IF s[n] = "," THEN ParseElements(s, n + 1, Append(l, pv.v))
               ELSE ParseFail

\* The JSON value that starts at the first non-blank place from i on.
ParseValue(s, i) ==
    LET b == SkipWs(s, i)
    IN IF b > Len(s) THEN ParseFail
       ELSE CASE s[b] = "{" ->
                    LET n == SkipWs(s, b + 1)
                    IN IF n <= Len(s) /\ s[n] = "}"
                       THEN Parsed(PyDict(EmptyDict), n + 1)
                       ELSE ParseMembers(s, b + 1, EmptyDict)
              [] s[b] = "[" ->
                    LET n == SkipWs(s, b + 1)
                    IN IF n <= Len(s) /\ s[n] = "]"
                       THEN Parsed(PyList(<<>>), n + 1)
                       ELSE ParseElements(s, b + 1, <<>>)
              [] s[b] = Q ->
                    LET c == ScanString(s, b + 1)
                    IN IF c = 0 THEN ParseFail
                       ELSE Parsed(PyStr(SubSeq(s, b + 1, c - 1)), c + 1)
              [] s[b] = "true" -> Parsed(PyBool(TRUE), b + 1)
              [] s[b] = "false" -> Parsed(PyBool(FALSE), b + 1)
              [] s[b] = "null" -> Parsed(PyNone, b + 1)
              [] s[b] \in Digit \cup {"-"} -> ParseNumber(s, b)
              [] OTHER -> ParseFail

\* json.loads(x): err is "" and v the value, or err is the exception
\* class: TypeError for a non-str, JSONDecodeError for a text that is no
\* single JSON value.
JsonLoads(x) ==
    IF x.t # "str" THEN [err |-> "TypeError", v |-> PyNone]
    ELSE LET pv == ParseValue(x.s, 1)
         IN IF pv.ok /\ SkipWs(x.s, pv.i) > Len(x.s)
            THEN [err |-> "", v |-> pv.v]
            ELSE [err |-> "JSONDecodeError", v |-> PyNone]

----------------------------------------------------------------------------
\* The reply normaliser and the response model

\* A dict key: the str holding the one chunk name.
Key(name) == <<name>>

HasKey(d, name) == Key(name) \in DOMAIN d

RequiredFields == <<"needs_watering", "needs_soil", "comment">>

\* Normalize with the message key tried before the three required keys.
NormalizeMessageFirst(raw) ==
    IF raw.t = "dict"
    THEN IF HasKey(raw.d, "message")
         THEN JsonLoads(raw.d[Key("message")])
         ELSE IF \A i \in 1..Len(RequiredFields) : HasKey(raw.d, RequiredFields[i])
         THEN [err |-> "", v |-> raw]
         ELSE [err |-> "ValueError", v |-> PyNone]
    ELSE JsonLoads(raw)

\* The try block of get_plant_status after ai.prompt has returned raw: err
\* is "" and v is advice_data, or err is the exception class caught.
Normalize(raw) ==
    IF raw.t = "dict"
    THEN IF \A i \in 1..Len(RequiredFields) : HasKey(raw.d, RequiredFields[i])
         THEN [err |-> "", v |-> raw]
         ELSE IF HasKey(raw.d, "message")
         THEN JsonLoads(raw.d[Key("message")])
         ELSE [err |-> "ValueError", v |-> PyNone]
    ELSE JsonLoads(raw)

\* The strs the response model takes for a bool.
TrueStrs == {<<"1">>, <<"on">>, <<"t">>, <<"true">>, <<"y">>, <<"yes">>}
FalseStrs == {<<"0">>, <<"off">>, <<"f">>, <<"false">>, <<"n">>, <<"no">>}

\* A bool field of the response model: bools, the ints 0 and 1 and the
\* strs above are taken, anything else is an error.
AsBool(v) ==
    CASE v.t = "bool" -> [ok |-> TRUE, b |-> v.b]
      [] v.t = "int" /\ v.n \in {0, 1} -> [ok |-> TRUE, b |-> v.n = 1]
      [] v.t = "str" /\ v.s \in TrueStrs \cup FalseStrs ->
            [ok |-> TRUE, b |-> v.s \in TrueStrs]
      [] OTHER -> [ok |-> FALSE, b |-> FALSE]

\* A str field of the response model.
AsStr(v) == IF v.t = "str" THEN [ok |-> TRUE, s |-> v.s] ELSE [ok |-> FALSE, s |-> <<>>]

\* A declared field of PlantAdviceResponse is present in d and of its type.
FieldOk(d, name) ==
    /\ HasKey(d, name)
    /\ IF name = "comment" THEN AsStr(d[Key(name)]).ok ELSE AsBool(d[Key(name)]).ok

FieldBad(d, name) == ~FieldOk(d, name)

\* The fields of seq that fail in d, in order.
RECURSIVE FailingFields(_, _)
FailingFields(d, seq) ==
    IF seq = <<>> THEN <<>>
    ELSE (IF FieldBad(d, Head(seq)) THEN <<Head(seq)>> ELSE <<>>)
         \o FailingFields(d, Tail(seq))

\* ValidateAdvice for a response model that forbids surplus keys.
ValidateAdviceForbidExtra(advice) ==
    IF advice.t # "dict"
    THEN HTTPException(500, "SchemaMismatch", "TypeError", <<>>)
    ELSE LET bad == FailingFields(advice.d, RequiredFields)
             surplus == DOMAIN advice.d
                        \ {Key(RequiredFields[i]) : i \in 1..Len(RequiredFields)}
         IN IF bad # <<>> \/ surplus # {}
            THEN HTTPException(500, "SchemaMismatch", "ValidationError", bad)
            ELSE Outcome(200, "Success", "", <<>>,
                         [needs_watering |->
                              AsBool(advice.d[Key("needs_watering")]).b,
                          needs_soil |-> AsBool(advice.d[Key("needs_soil")]).b,
                          comment |-> AsStr(advice.d[Key("comment")]).s],
                         FALSE)

\* PlantAdviceResponse(**advice_data) with the except clause around it:
\* the 200 with the three declared fields, or the 500 whose detail lists
\* the failing fields in declaration order (a TypeError when advice_data is
\* no mapping).
ValidateAdvice(advice) ==
    IF advice.t # "dict"
    THEN HTTPException(500, "SchemaMismatch", "TypeError", <<>>)
    ELSE LET bad == FailingFields(advice.d, RequiredFields)
         IN IF bad # <<>>
            THEN HTTPException(500, "SchemaMismatch", "ValidationError", bad)
            ELSE Outcome(200, "Success", "", <<>>,
                         [needs_watering |->
                              AsBool(advice.d[Key("needs_watering")]).b,
                          needs_soil |-> AsBool(advice.d[Key("needs_soil")]).b,
                          comment |-> AsStr(advice.d[Key("comment")]).s],
                         FALSE)

----------------------------------------------------------------------------
\* Inputs

\* Request bodies' document_path.
Paths ==
    {<<>>, <<" ">>, <<"/">>, <<" ", "/", "/", " ">>, <<"/", " ", "/">>,
     <<"jardin">>, <<" ", "/", "jardin", "/", "Rositas", "/", " ">>}

\* Values a document field may hold.
FieldValues ==
    {PyFloat(Fin(235, 1)), PyStr(<<"4", "2">>), PyStr(<<"n", "a", "n">>),
     PyStr(<<"i", "n", "f">>), PyStr(<<"a", "b", "c">>), PyNone}

FieldNames == {"humedad", "temperatura"}

\* The data of a document: any of the two fields, with any value.
Docs == UNION {[S -> FieldValues] : S \in SUBSET FieldNames}

\* What client.document(path).get() may return.
Snapshots ==
    {[exists |-> FALSE, data |-> <<>>]} \cup {[exists |-> TRUE, data |-> d] : d \in Docs}

KV(name, value) == <<Q, name, Q, ":">> \o value
JStr(chunk) == <<Q, chunk, Q>>

AdviceText ==
    <<"{">> \o KV("needs_watering", <<"true">>) \o <<",", " ">>
    \o KV("needs_soil", <<"false">>) \o <<",", " ">>
    \o KV("comment", JStr("Riega pronto")) \o <<"}">>

AdviceWithLightText ==
    <<" ", "{">> \o KV("needs_watering", <<"false">>) \o <<",">>
    \o KV("needs_soil", <<"true">>) \o <<",">>
    \o KV("needs_light", <<"true">>) \o <<",">>
    \o KV("comment", JStr("ok")) \o <<"}", " ">>

AdviceDict ==
    (Key("needs_watering") :> PyBool(TRUE)) @@ (Key("needs_soil") :> PyBool(FALSE))
    @@ (Key("comment") :> PyStr(<<"Riega pronto">>))

\* Replies of ai.prompt that are dicts.
DictReplies ==
    {PyDict(AdviceDict),
     PyDict(AdviceDict @@ (Key("message") :> PyStr(<<"{">>))),
     PyDict((Key("needs_soil") :> PyNone) @@ AdviceDict
            @@ (Key("needs_light") :> PyBool(TRUE))),
     PyDict(Key("message") :> PyStr(AdviceWithLightText)),
     PyDict(Key("message") :> PyStr(<<"h", "o", "l", "a">>)),
     PyDict(Key("message") :> PyNone),
     PyDict((Key("message") :> PyStr(AdviceText))
            @@ (Key("needs_watering") :> PyBool(FALSE))
            @@ (Key("comment") :> PyStr(<<"x">>))),
     PyDict(Key("reply") :> PyStr(AdviceText)),
     PyDict(EmptyDict)}

\* Replies of ai.prompt that are strs.
StrReplies ==
    {PyStr(AdviceText),
     PyStr(AdviceWithLightText),
     PyStr(<<"{">> \o KV("needs_watering", <<"true">>) \o <<",">>
           \o KV("needs_soil", <<"false">>) \o <<"}">>),
     PyStr(<<"{">> \o KV("needs_watering", JStr("maybe")) \o <<",">>
           \o KV("comment", JStr("ok")) \o <<"}">>),
     PyStr(<<"{">> \o KV("needs_watering", JStr("yes")) \o <<",">>
           \o KV("needs_soil", <<"0">>) \o <<",">>
           \o KV("comment", JStr("ok")) \o <<"}">>),
     PyStr(<<"{">> \o KV("needs_watering", <<"true">>) \o <<",">>
           \o KV("needs_soil", <<"false">>) \o <<",">>
           \o KV("comment", <<"null">>) \o <<"}">>),
     PyStr(<<"{">> \o KV("message", JStr("ok")) \o <<"}">>),
     PyStr(<<"[", "]">>),
     PyStr(JStr("Riega pronto")),
     PyStr(<<"h", "o", "l", "a">>),
     PyStr(<<"{">> \o KV("needs_watering", <<"true">>)),
     PyStr(AdviceText \o <<"}">>),
     PyStr(<<>>)}

\* What ai.prompt may return.
AiReplies == DictReplies \cup StrReplies \cup {PyNone}

----------------------------------------------------------------------------
\* State

VARIABLES
    firestoreClient,  \* _firestore_client: "None" or "client"
    appInitialized,   \* the default Firebase app exists (firebase_admin)
    clientInits,      \* how often _firestore_client has been assigned
    loopOwner,        \* the request whose handler holds the event loop, or 0
    pc,               \* where each request is
    docPath,          \* payload.document_path, until the thread has read it
    future,           \* the outcome of each request's worker thread
    measurement,      \* (humidity, temperature) returned by the thread, until
                      \* the prompt is built from it
    prompt,           \* the prompt sent to the AI capability, while in flight
    raw,              \* what ai.prompt returned
    adviceData,       \* advice_data
    response,         \* the response of each request
    steps,            \* the steps each request has taken, in order
    aiCalls           \* how often each request has called ai.prompt

vars ==
    <<firestoreClient, appInitialized, clientInits, loopOwner, pc, docPath,
      future, measurement, prompt, raw, adviceData, response, steps, aiCalls>>

shared == <<firestoreClient, appInitialized, clientInits>>
aiSide == <<prompt, raw, adviceData, aiCalls>>

Unset == [t |-> "unset"]

Init ==
    /\ firestoreClient = "None"
    /\ appInitialized = FALSE
    /\ clientInits = 0
    /\ loopOwner = 0
    /\ pc = [r \in Requests |-> "new"]
    /\ docPath = [r \in Requests |-> <<>>]
    /\ future = [r \in Requests |-> Pending]
    /\ measurement = [r \in Requests |-> NoMeasurement]
    /\ prompt = [r \in Requests |-> NoPrompt]
    /\ raw = [r \in Requests |-> Unset]
    /\ adviceData = [r \in Requests |-> Unset]
    /\ response = [r \in Requests |-> Pending]
    /\ steps = [r \in Requests |-> <<>>]
    /\ aiCalls = [r \in Requests |-> 0]

\* The worker thread of r ends with outcome out and measurement m.
ThreadEnds(r, out, m) ==
    /\ future' = [future EXCEPT ![r] = out]
    /\ measurement' = [measurement EXCEPT ![r] = m]
    /\ pc' = [pc EXCEPT ![r] = "fetched"]

----------------------------------------------------------------------------
\* get_plant_status, on the event loop

\* OwnerWhileFetching for a handler that calls fetch_measurements itself,
\* on the event loop.
OwnerWhileFetchingInline(r) == r

\* The owner of the event loop once the handler of r has dispatched
\* fetch_measurements with asyncio.to_thread and awaits it: nobody.
OwnerWhileFetching(r) == 0

\* A request arrives: the handler starts on the event loop, hands
\* fetch_measurements to a worker thread and awaits it.  Requests are
\* numbered in their order of arrival.
Start(r, path) ==
    /\ loopOwner = 0
    /\ pc[r] = "new"
    /\ IF r = 1 THEN TRUE ELSE pc[r - 1] # "new"
    /\ pc' = [pc EXCEPT ![r] = "submitted"]
    /\ docPath' = [docPath EXCEPT ![r] = path]
    /\ steps' = [steps EXCEPT ![r] = <<"fetch">>]
    /\ loopOwner' = OwnerWhileFetching(r)
    /\ UNCHANGED <<shared, future, measurement, aiSide, response>>

\* The await of the thread raises what the thread raised: the handler has
\* no try around it.  An HTTPException is the response; any other exception
\* leaves the handler.
FetchFailed(r) ==
    /\ loopOwner = 0
    /\ pc[r] = "fetched"
    /\ future[r].kind # "ok"
    /\ response' = [response EXCEPT ![r] = future[r]]
    /\ steps' = [steps EXCEPT ![r] =
                    IF future[r].raised THEN @ ELSE Append(@, "respond")]
    /\ pc' = [pc EXCEPT ![r] = "done"]
    /\ UNCHANGED <<shared, loopOwner, docPath, future, measurement, aiSide>>

\* The await returns the measurement; the handler builds the prompt and
\* calls ai.prompt, a blocking call made on the event loop.
InvokeAi(r) ==
    /\ loopOwner = 0
    /\ pc[r] = "fetched"
    /\ future[r].kind = "ok"
    /\ prompt' = [prompt EXCEPT ![r] = BuildPrompt(measurement[r])]
    /\ aiCalls' = [aiCalls EXCEPT ![r] = @ + 1]
    /\ steps' = [steps EXCEPT ![r] = @ \o <<"build_prompt", "invoke_ai">>]
    /\ measurement' = [measurement EXCEPT ![r] = NoMeasurement]
    /\ loopOwner' = r
    /\ pc' = [pc EXCEPT ![r] = "ai_wait"]
    /\ UNCHANGED <<shared, docPath, future, raw, adviceData, response>>

\* ai.prompt returns reply: the handler normalises it, validates the result
\* and responds.
AiReturns(r, reply) ==
    /\ pc[r] = "ai_wait"
    /\ loopOwner = r
    /\ LET n == Normalize(reply)
       IN /\ raw' = [raw EXCEPT ![r] = reply]
          /\ IF n.err # ""
             THEN /\ adviceData' = adviceData
                  /\ response' = [response EXCEPT ![r] =
                         HTTPException(500, "UpstreamFormat", n.err, <<>>)]
                  /\ steps' = [steps EXCEPT ![r] = @ \o <<"normalize", "respond">>]
             ELSE /\ adviceData' = [adviceData EXCEPT ![r] = n.v]
                  /\ response' = [response EXCEPT ![r] = ValidateAdvice(n.v)]
                  /\ steps' = [steps EXCEPT ![r] =
                                  @ \o <<"normalize", "validate", "respond">>]
    /\ prompt' = [prompt EXCEPT ![r] = NoPrompt]
    /\ loopOwner' = 0
    /\ pc' = [pc EXCEPT ![r] = "done"]
    /\ UNCHANGED <<shared, docPath, future, measurement, aiCalls>>

\* AiRaises for a handler that calls ai.prompt once more when it raises,
\* and answers 500 when the second call raises too.
AiRaisesAndRetries(r) ==
    /\ pc[r] = "ai_wait"
    /\ loopOwner = r
    /\ IF aiCalls[r] < 2
       THEN /\ aiCalls' = [aiCalls EXCEPT ![r] = @ + 1]
            /\ steps' = [steps EXCEPT ![r] = Append(@, "invoke_ai")]
            /\ UNCHANGED <<response, prompt, loopOwner, pc>>
       ELSE /\ response' = [response EXCEPT ![r] =
                   HTTPException(500, "UpstreamFormat", "AiException", <<>>)]
            /\ steps' = [steps EXCEPT ![r] = Append(@, "respond")]
            /\ prompt' = [prompt EXCEPT ![r] = NoPrompt]
            /\ loopOwner' = 0
            /\ pc' = [pc EXCEPT ![r] = "done"]
            /\ UNCHANGED aiCalls
    /\ UNCHANGED <<shared, docPath, future, measurement, raw, adviceData>>

\* ai.prompt raises: the except clause of the first try block answers 500.
AiRaises(r) ==
    /\ pc[r] = "ai_wait"
    /\ loopOwner = r
    /\ response' = [response EXCEPT ![r] =
           HTTPException(500, "UpstreamFormat", "AiException", <<>>)]
    /\ steps' = [steps EXCEPT ![r] = Append(@, "respond")]
    /\ prompt' = [prompt EXCEPT ![r] = NoPrompt]
    /\ loopOwner' = 0
    /\ pc' = [pc EXCEPT ![r] = "done"]
    /\ UNCHANGED <<shared, docPath, future, measurement, raw, adviceData,
                   aiCalls>>

----------------------------------------------------------------------------
\* fetch_measurements and get_firestore_client, on the worker thread of r

\* The path is normalised; an empty one is refused, else get_firestore_client
\* is entered.
NormalizeDocPath(r) ==
    /\ pc[r] = "submitted"
    /\ docPath' = [docPath EXCEPT ![r] = <<>>]
    /\ IF NormalizePath(docPath[r]) = <<>>
       THEN ThreadEnds(r, HTTPException(400, "EmptyPath", "", <<>>), NoMeasurement)
       ELSE /\ pc' = [pc EXCEPT ![r] = "client_check"]
            /\ UNCHANGED <<future, measurement>>
    /\ UNCHANGED <<shared, loopOwner, aiSide, response, steps>>

\* if _firestore_client is not None: return _firestore_client
ClientCheck(r) ==
    /\ pc[r] = "client_check"
    /\ pc' = [pc EXCEPT ![r] =
                 IF firestoreClient # "None" THEN "reading" ELSE "get_app"]
    /\ UNCHANGED <<shared, loopOwner, docPath, future, measurement, aiSide,
                   response, steps>>

\* firebase_admin.get_app(): the app exists, or ValueError is raised and
\* the except clause is entered.
GetApp(r) ==
    /\ pc[r] = "get_app"
    /\ pc' = [pc EXCEPT ![r] =
                 IF appInitialized THEN "client_assign" ELSE "init_app"]
    /\ UNCHANGED <<shared, loopOwner, docPath, future, measurement, aiSide,
                   response, steps>>

\* GOOGLE_APPLICATION_CREDENTIALS as the process finds it.
Credentials == {"unset", "file", "no_file"}

\* The except clause: RuntimeError when the configured credentials file
\* does not exist; else initialize_app, which raises ValueError when the
\* default app exists by now.
InitApp(r, cred) ==
    /\ pc[r] = "init_app"
    /\ IF cred = "no_file"
       THEN /\ ThreadEnds(r, Unhandled("RuntimeError"), NoMeasurement)
            /\ UNCHANGED appInitialized
       ELSE IF appInitialized
       THEN /\ ThreadEnds(r, Unhandled("ValueError"), NoMeasurement)
            /\ UNCHANGED appInitialized
       ELSE /\ appInitialized' = TRUE
            /\ pc' = [pc EXCEPT ![r] = "client_assign"]
            /\ UNCHANGED <<future, measurement>>
    /\ UNCHANGED <<firestoreClient, clientInits, loopOwner, docPath, aiSide,
                   response, steps>>

\* _firestore_client = firestore.client()
AssignClient(r) ==
    /\ pc[r] = "client_assign"
    /\ firestoreClient' = "client"
    /\ clientInits' = clientInits + 1
    /\ pc' = [pc EXCEPT ![r] = "reading"]
    /\ UNCHANGED <<appInitialized, loopOwner, docPath, future, measurement,
                   aiSide, response, steps>>

\* client.document(normalized_path).get() returns snapshot; the rest of
\* fetch_measurements runs on it.
StoreReturns(r, snapshot) ==
    /\ pc[r] = "reading"
    /\ LET res == FromSnapshot(snapshot) IN ThreadEnds(r, res.out, res.m)
    /\ UNCHANGED <<shared, loopOwner, docPath, aiSide, response, steps>>

\* client.document(normalized_path).get() raises (the store cannot be
\* reached): nothing in fetch_measurements catches it.
StoreRaises(r) ==
    /\ pc[r] = "reading"
    /\ ThreadEnds(r, Unhandled("StoreError"), NoMeasurement)
    /\ UNCHANGED <<shared, loopOwner, docPath, aiSide, response, steps>>

----------------------------------------------------------------------------
\* Specifications

\* The inputs of the runs in which requests overlap: one of each class.
CorePaths == {<<>>, <<"jardin">>}

CoreSnapshots ==
    {[exists |-> FALSE, data |-> <<>>],
     [exists |-> TRUE,
      data |-> [humedad |-> PyStr(<<"4", "2">>),
                temperatura |-> PyFloat(Fin(235, 1))]],
     [exists |-> TRUE, data |-> [humedad |-> PyFloat(Fin(235, 1))]]}

CoreReplies == {PyStr(AdviceText), PyStr(<<"h", "o", "l", "a">>)}

\* The steps of request r on the event loop and on its worker thread, the
\* store's answer apart, with inputs from the given sets.
RequestStep(r, paths, replies) ==
    \/ \E path \in paths : Start(r, path)
    \/ NormalizeDocPath(r)
    \/ ClientCheck(r)
    \/ GetApp(r)
    \/ \E cred \in Credentials : InitApp(r, cred)
    \/ AssignClient(r)
    \/ FetchFailed(r)
    \/ InvokeAi(r)
    \/ \E reply \in replies : AiReturns(r, reply)
    \/ AiRaises(r)

\* The document store answers the read of request r.
StoreAnswers(r, snapshots) ==
    \/ \E snapshot \in snapshots : StoreReturns(r, snapshot)
    \/ StoreRaises(r)

\* Requests overlap in every way the event loop and the threads allow.
Next ==
    \/ \E r \in Requests : RequestStep(r, CorePaths, CoreReplies)
    \/ \E r \in Requests : StoreAnswers(r, CoreSnapshots)

Spec == Init /\ [][Next]_vars

\* No other request is in flight.
Alone(r) == \A q \in Requests \ {r} : pc[q] \in {"new", "done"}

\* Requests are served one after the other, with every input.
SerialNext ==
    \/ \E r \in Requests : Alone(r) /\ RequestStep(r, Paths, AiReplies)
    \/ \E r \in Requests : Alone(r) /\ StoreAnswers(r, Snapshots)

SerialSpec == Init /\ [][SerialNext]_vars

\* The event loop runs every handler that can run, the operating system
\* every worker thread, the AI capability answers every call, and the
\* document store answers every read but those of request 1.
FairSpec ==
    /\ Spec
    /\ \A r \in Requests : WF_vars(RequestStep(r, CorePaths, CoreReplies))
    /\ \A r \in Requests \ {1} : WF_vars(StoreAnswers(r, CoreSnapshots))

----------------------------------------------------------------------------
\* Properties

Done(r) == pc[r] = "done"

\* s is an initial part of t.
IsPrefix(s, t) == Len(s) <= Len(t) /\ s = SubSeq(t, 1, Len(s))

\* The three declared fields are in d, each of its type.
AllFieldsOk(d) == \A i \in 1..Len(RequiredFields) : FieldOk(d, RequiredFields[i])

\* The reply of request r was normalised to a mapping that passes validation.
AdviceAccepted(r) ==
    /\ adviceData[r] # Unset
    /\ adviceData[r].t = "dict"
    /\ AllFieldsOk(adviceData[r].d)

\* C1: the status of every response is fixed by the outcome class: 400 for
\* an empty path or a missing or non-numeric measurement field, 404 for an
\* absent document, 500 when the AI reply cannot be normalised or fails
\* validation, 200 in every other case; and 200 only after a successful
\* fetch and a reply normalised to a mapping that passed validation.
C1_StatusFixedByOutcomeClass ==
    \A r \in Requests :
        Done(r) =>
            /\ response[r].status =
                  (CASE future[r].kind \in {"EmptyPath", "MissingField", "NotNumeric"}
                          -> 400
                     [] future[r].kind = "NotFound" -> 404
                     [] future[r].kind = "ok" /\ ~AdviceAccepted(r) -> 500
                     [] OTHER -> 200)
            /\ response[r].status = 200 => future[r].kind = "ok" /\ AdviceAccepted(r)

\* C2: the connection handle is assigned at most once in the life of the
\* process, however the first requests overlap.
C2_ClientInitializedAtMostOnce == clientInits <= 1

StepOrder == <<"fetch", "build_prompt", "invoke_ai", "normalize", "validate">>

\* The steps of s but the responses.
RECURSIVE WithoutRespond(_)
WithoutRespond(s) ==
    IF s = <<>> THEN <<>>
    ELSE (IF Head(s) = "respond" THEN <<>> ELSE <<Head(s)>>) \o WithoutRespond(Tail(s))

\* C3: the steps of a request come in the order fetch, build prompt, invoke
\* AI, normalise, validate, respond, the response being the last step and
\* given once; the AI capability is invoked at most once per request, and
\* never for a request whose fetch failed with 400 or 404.
C3_StepsInOrderOneAiCall ==
    \A r \in Requests :
        /\ IsPrefix(WithoutRespond(steps[r]), StepOrder)
        /\ \A i \in 1..Len(steps[r]) : steps[r][i] = "respond" => i = Len(steps[r])
        /\ aiCalls[r] <= 1
        /\ aiCalls[r] = Cardinality({i \in 1..Len(steps[r]) : steps[r][i] = "invoke_ai"})
        /\ future[r].status \in {400, 404} => aiCalls[r] = 0
        /\ Done(r) /\ response[r].status = 200 =>
               steps[r] = Append(StepOrder, "respond")

\* Two requests are done: one went through every step and called the AI
\* capability once, one failed its fetch with 404 and never called it.
C3_Witness ==
    \E r, q \in Requests :
        /\ Done(r) /\ response[r].status = 200 /\ aiCalls[r] = 1
        /\ steps[r] = Append(StepOrder, "respond")
        /\ Done(q) /\ response[q].status = 404 /\ aiCalls[q] = 0

UpstreamFormatFailure(r) ==
    /\ response[r].status = 500
    /\ response[r].kind = "UpstreamFormat"
    /\ adviceData[r] = Unset

\* advice_data of request r is text parsed as JSON, or the request ended
\* with the upstream-format failure when text does not parse.
ParsedOrFailed(r, text) ==
    IF JsonLoads(text).err = ""
    THEN adviceData[r] = JsonLoads(text).v
    ELSE UpstreamFormatFailure(r)

\* C4: a reply that is a mapping with the three required keys is used
\* unchanged, a message key in it left unparsed; else a mapping with a
\* message key has that value parsed as JSON; else a reply that is no
\* mapping is parsed as JSON; a mapping of neither shape and any parse
\* failure end the request with the upstream-format failure, status 500.
C4_NormalizerShapeOrder ==
    \A r \in Requests :
        Done(r) /\ raw[r] # Unset =>
            /\ IF raw[r].t = "dict"
               THEN IF \A i \in 1..Len(RequiredFields) :
                           HasKey(raw[r].d, RequiredFields[i])
                    THEN adviceData[r] = raw[r]
                    ELSE IF HasKey(raw[r].d, "message")
                    THEN ParsedOrFailed(r, raw[r].d[Key("message")])
                    ELSE UpstreamFormatFailure(r)
               ELSE ParsedOrFailed(r, raw[r])
            /\ adviceData[r] = Unset => response[r].status = 500

\* A reply with the three keys and an unparsable message was answered 200,
\* and a reply with a message and only two of the keys was answered from
\* the parsed message.
C4_Witness ==
    /\ \E r \in Requests :
          /\ Done(r) /\ raw[r] # Unset /\ raw[r].t = "dict"
          /\ HasKey(raw[r].d, "message") /\ HasKey(raw[r].d, "needs_soil")
          /\ JsonLoads(raw[r].d[Key("message")]).err # ""
          /\ response[r].status = 200
    /\ \E r \in Requests :
          /\ Done(r) /\ raw[r] # Unset /\ raw[r].t = "dict"
          /\ HasKey(raw[r].d, "message") /\ HasKey(raw[r].d, "comment")
          /\ ~HasKey(raw[r].d, "needs_soil")
          /\ adviceData[r] = JsonLoads(raw[r].d[Key("message")]).v
          /\ response[r].status = 200

\* The Firestore fields whose lookup in data raises KeyError.
MissingFields(data) == FieldNames \ DOMAIN data

\* Some field of data that is there does not convert to float.
SomeNotCoercible(data) ==
    \E f \in FieldNames \cap DOMAIN data : PyFloatOf(data[f]).err # ""

\* C5, for the path: a path that is empty once stripped of whitespace and
\* then of "/" fails with 400, and no other path fails there.
C5_PathClassified(r) ==
    NormalizeDocPath(r) =>
        IF Strip(Strip(docPath[r], Whitespace), {"/"}) = <<>>
        THEN future'[r].status = 400 /\ future'[r].kind = "EmptyPath"
        ELSE future'[r] = Pending

\* C5, for the document read: no document is 404; else a missing field is
\* 400 with a detail naming a field that is missing; else a field that
\* does not convert is 400; else the converted pair is returned.
C5_SnapshotClassified(r, snapshot) ==
    StoreReturns(r, snapshot) =>
        IF ~snapshot.exists
        THEN future'[r].status = 404
        ELSE IF MissingFields(snapshot.data) # {}
        THEN /\ future'[r].status = 400
             /\ future'[r].names # <<>>
             /\ \A i \in 1..Len(future'[r].names) :
                    future'[r].names[i] \in MissingFields(snapshot.data)
        ELSE IF SomeNotCoercible(snapshot.data)
        THEN future'[r].status = 400
        ELSE /\ future'[r].kind = "ok"
             /\ measurement'[r] =
                    Measurement(PyFloatOf(snapshot.data["humedad"]).f,
                                PyFloatOf(snapshot.data["temperatura"]).f)

\* C5: fetch_measurements classifies its input: empty path 400, else no
\* document 404, else a missing field 400 naming a missing field, else a
\* field that is not numeric 400, else the pair of floats.
C5_FetchClassification ==
    [][\A r \in Requests :
          /\ C5_PathClassified(r)
          /\ \A snapshot \in Snapshots : C5_SnapshotClassified(r, snapshot)]_vars

\* The declared fields that are missing from d or hold a value of another
\* type than declared, in declaration order.
C6_Offending(d) ==
    SelectSeq(RequiredFields,
              LAMBDA name :
                  \/ ~HasKey(d, name)
                  \/ IF name = "comment"
                     THEN d[Key(name)].t # "str"
                     ELSE ~AsBool(d[Key(name)]).ok)

C7_NoExceptionLeavesHandler ==
    \A r \in Requests :
        Done(r) =>
            /\ ~response[r].raised
            /\ response[r].status \in {200, 400, 404, 500}

NonFiniteText == {<<"n", "a", "n">>, <<"i", "n", "f">>, <<"-", "i", "n", "f">>}

\* C8: the measurement fetch_measurements returns, and the one written
\* into the prompt, has a finite humidity and a finite temperature.
C8_MeasurementFinite ==
    \A r \in Requests :
        /\ measurement[r].set =>
               IsFinite(measurement[r].humidity) /\ IsFinite(measurement[r].temperature)
        /\ pc[r] = "ai_wait" =>
               /\ prompt[r].humidity \notin NonFiniteText
               /\ prompt[r].temperature \notin NonFiniteText

\* C9: with the document store never answering the read of request 1,
\* every other request is started and runs to its response.
C9_OthersFinishWhileStoreIsSlow ==
    \A r \in Requests \ {1} : <>Done(r)

\* Request 1 is blocked in its read while a later request has been
\* answered 200.
C9_Witness ==
    /\ pc[1] = "reading"
    /\ \E r \in Requests \ {1} : Done(r) /\ response[r].status = 200

\* C10: while a request is in the call of the AI capability, every other
\* request that has started and is not done can take a step.
C10_OthersProgressDuringAiCall ==
    \A a, b \in Requests :
        a # b /\ pc[a] = "ai_wait" /\ pc[b] \notin {"new", "done"} =>
            ENABLED (\/ RequestStep(b, CorePaths, CoreReplies)
                     \/ StoreAnswers(b, CoreSnapshots))

====
